---- MODULE Spec2Model ----
(***************************************************************************)
(* A model of src/league.py: the League class that fetches a fantasy       *)
(* basketball league from the provider and reshapes it (league meta, team   *)
(* meta, rosters, per-player season stats, per-team totals).                *)
(*                                                                          *)
(* Python values that the code compares or tests across types (None, int,  *)
(* str) are tagged records; an attribute of the instance is a sequence of  *)
(* length 0 (never assigned: reading it raises AttributeError) or 1.       *)
(***************************************************************************)
EXTENDS Integers, Sequences, FiniteSets, TLC

VARIABLES
    provider,      \* what the provider serves: the teams array, in its order
    state,         \* "uninit" (no instance yet) or "ready" (constructed)
    cookies,       \* self.cookies
    league_id,     \* self.league_id
    year,          \* self.year
    team_id,       \* self.team_id
    meta,          \* self.meta
    rosters,       \* self.rosters
    roster_stats,  \* self.roster_stats
    op,            \* the last operation called
    arg,           \* its argument
    result,        \* what it returned or raised
    requests,      \* the HTTP requests it issued, in order
    responses      \* the HTTP status the provider answered each of them with

vars == <<provider, state, cookies, league_id, year, team_id, meta, rosters,
          roster_stats, op, arg, result, requests, responses>>

fields == <<cookies, league_id, year, team_id, meta, rosters, roster_stats>>

----------------------------------------------------------------------------
(* Bounds of the model *)

\* teams in the league
NumTeams == 2
\* entries on one team's roster
MaxRoster == 2

----------------------------------------------------------------------------
(* Python values *)

None == [t |-> "none"]
PyInt(n) == [t |-> "int", v |-> n]
PyStr(s) == [t |-> "str", v |-> s]
PyDict(keys) == [t |-> "dict", v |-> keys]

\* Python's ==, which is False across types
PyEq(a, b) == a.t = b.t /\ (a.t = "none" \/ a.v = b.v)

\* Python's truth value, as `not x` reads it
Truthy(a) ==
    CASE a.t = "none" -> FALSE
      [] a.t = "int" -> a.v # 0
      [] a.t = "str" -> a.v # <<>>
      [] a.t = "dict" -> a.v # <<>>

Unset == <<>>
IsSet(attr) == attr # <<>>

Ok(v) == [kind |-> "ok", val |-> <<v>>]
Raise(k, d) == [kind |-> k, val |-> <<d>>]
NoResult == [kind |-> "none", val |-> <<>>]

\* seq[i] of a Python list: 0-based, negative indices count from the end
PyIndex(seq, i) ==
    IF 0 <= i /\ i < Len(seq) THEN Ok(seq[i + 1])
    ELSE IF -Len(seq) <= i /\ i < 0 THEN Ok(seq[Len(seq) + i + 1])
    ELSE Raise("IndexError", i)

RECURSIVE Concat(_)
Concat(seqs) == IF seqs = <<>> THEN <<>> ELSE Head(seqs) \o Concat(Tail(seqs))

RECURSIVE SumSeq(_)
SumSeq(s) == IF s = <<>> THEN 0 ELSE Head(s) + SumSeq(Tail(s))

WhiteSpace == {" "}

RECURSIVE LStrip(_)
LStrip(s) == IF s # <<>> /\ Head(s) \in WhiteSpace THEN LStrip(Tail(s)) ELSE s

RECURSIVE RStrip(_)
RStrip(s) ==
    IF s # <<>> /\ s[Len(s)] \in WhiteSpace THEN RStrip(SubSeq(s, 1, Len(s) - 1)) ELSE s

\* str.strip()
Strip(s) == RStrip(LStrip(s))

----------------------------------------------------------------------------
(* Constants and utilities the module imports (.constants, .utils) *)

\* FBA_ENDPOINT followed by the year and league of the instance
Url(y, l) == <<"FBA_ENDPOINT", y, "/segments/0/leagues/", l>>

\* STATS_INT_TO_STRING: provider stat id -> canonical name
STATS_INT_TO_STRING ==
    (0 :> "points") @@ (1 :> "blocks") @@ (2 :> "steals") @@ (3 :> "assists")
        @@ (6 :> "rebounds")

StatNames == {"points", "blocks", "steals", "assists", "rebounds"}

\* request_status(code): raises for a status outside 200..299
StatusOk(code) == 200 <= code /\ code <= 299

\* _cast_none(x): None becomes 0
CastNone(x) == IF x.t = "none" THEN PyInt(0) ELSE x

Missing == [t |-> "missing"]

\* get_nested(mapping, "a.b.c"), the path given as its segments
RECURSIVE GetNested(_, _)
GetNested(m, path) ==
    IF path = <<>> THEN m
    ELSE IF Head(path) \in DOMAIN m THEN GetNested(m[Head(path)], Tail(path))
    ELSE Missing

\* dict.get(key): None when the key is absent
DictGet(d, k) == IF k \in DOMAIN d THEN d[k] ELSE None

----------------------------------------------------------------------------
(* The provider: the JSON the code reads from it *)

Statuses == {199, 200, 299, 300}

SeasonLine(m) == [statSplitTypeId |-> 2, stats |-> m]
SplitLine(m) == [statSplitTypeId |-> 1, stats |-> m]

\* the stats list of each player of the pool: at most one season-total
\* statline (split type 2) each
PoolStats ==
    <<
      \* a weekly line, then season totals with an id the mapping lacks
      << SplitLine(0 :> PyInt(99)),
         SeasonLine((0 :> PyInt(10)) @@ (1 :> PyInt(3)) @@ (999 :> PyInt(7))) >>,
      \* season totals with a null, and without points' neighbours
      << SeasonLine((0 :> PyInt(5)) @@ (1 :> None) @@ (2 :> PyInt(1))
                      @@ (3 :> PyInt(2)) @@ (6 :> PyInt(4))) >>,
      \* no season totals
      << SplitLine((0 :> PyInt(8)) @@ (6 :> PyInt(1))) >>
    >>

Pool == 1..Len(PoolStats)

Entry(p) ==
    [playerId |-> p,
     playerPoolEntry |->
        [player |-> [fullName |-> <<"P", p>>, id |-> p, stats |-> PoolStats[p]]]]

Nick(i) ==
    CASE i % 3 = 1 -> <<" ", "A">>
      [] i % 3 = 2 -> <<"B">>
      [] OTHER -> <<"A", " ">>

\* a team of the provider's teams array, with the roster it has
ProviderTeam(i, roster) ==
    [id |-> i,
     nickname |-> Nick(i),
     abbrev |-> <<"T", i>>,
     owners |-> <<<<"owner", i>>>>,
     primaryOwner |-> <<"owner", i>>,
     record |-> [overall |-> [wins |-> i, losses |-> i + 1, ties |-> 0]],
     valuesByStat |-> (0 :> PyInt(10 * i)),
     roster |-> [entries |-> [k \in 1..Len(roster) |-> Entry(roster[k])]]]

\* the rosters a team can have: players of the pool, each once, by ascending id
RosterSeqs ==
    UNION {{r \in [1..n -> Pool] : \A a, b \in 1..n : a < b => r[a] < r[b]}
             : n \in 0..MaxRoster}

Range(f) == {f[x] : x \in DOMAIN f}

\* each team's roster in a league of n teams, no player on two rosters
Assignments(n) ==
    {a \in [1..n -> RosterSeqs] :
        \A i, j \in 1..n : i # j => Range(a[i]) \cap Range(a[j]) = {}}

\* the orders the provider lists n teams in: by id, ascending or descending
Orders(n) == {[k \in 1..n |-> k], [k \in 1..n |-> n + 1 - k]}

\* the leagues the provider can hold: 1..NumTeams teams
Providers ==
    UNION {{[teams |-> [k \in 1..n |-> ProviderTeam(o[k], a[o[k]])],
             members |-> <<[id |-> <<"owner", 1>>, displayName |-> <<"M">>]>>,
             status |-> [currentMatchupPeriod |-> 3, latestScoringPeriod |-> 17]]
                : o \in Orders(n), a \in Assignments(n)} : n \in 1..NumTeams}

----------------------------------------------------------------------------
(* League.__init__ and _fetch_league_meta *)

Request(url, params, cks) == [url |-> url, params |-> params, cookies |-> cks]

NoParams == <<>>

\* a check for None alone, which lets an empty dict through
CredsMissing_NoneOnly(c) == c.t = "none"

\* `if not self.cookies`
CredsMissing(c) == ~Truthy(c)

\* the meta dict built from the league resource
LeagueMeta(data) ==
    [current_week |-> data.status.currentMatchupPeriod,
     nba_day |-> data.status.latestScoringPeriod,
     members |-> [k \in 1..Len(data.members) |->
                    [id |-> data.members[k].id, name |-> data.members[k].displayName]],
     teams |-> [k \in 1..Len(data.teams) |->
                    [id |-> data.teams[k].id,
                     owner |-> data.teams[k].owners[1],
                     name |-> data.teams[k].nickname]]]

FetchLeagueMetaResult(data, code) ==
    IF ~StatusOk(code) THEN Raise("HttpError", code) ELSE Ok(LeagueMeta(data))

----------------------------------------------------------------------------
(* _fetch_team_meta *)

\* team_id if team_id is not None else self.team_id
EffectiveTeamId(a, self_team_id) == IF a.t # "none" THEN a.v ELSE self_team_id

\* the id used as the index, without the correction
TeamIndex_SameAsId(tid) == tid

\* fantasy team ids start at 1 not 0
TeamIndex(tid) == tid - 1

TeamMeta(tid, my_team) ==
    [id |-> tid,
     abbrev |-> my_team.abbrev,
     owner |-> my_team.primaryOwner,
     name |-> my_team.nickname,
     record |-> <<my_team.record.overall.wins, my_team.record.overall.losses,
                  my_team.record.overall.ties>>,
     stats |-> my_team.valuesByStat]

\* team meta without the status check
FetchTeamMetaResult_Unchecked(a, self_team_id, data, code) ==
    LET tid == EffectiveTeamId(a, self_team_id)
        my_team == PyIndex(data.teams, TeamIndex(tid))
    IN  IF my_team.kind # "ok" THEN my_team ELSE Ok(TeamMeta(tid, my_team.val[1]))

FetchTeamMetaResult(a, self_team_id, data, code) ==
    IF ~StatusOk(code) THEN Raise("HttpError", code)
    ELSE LET tid == EffectiveTeamId(a, self_team_id)
             my_team == PyIndex(data.teams, TeamIndex(tid))
         IN  IF my_team.kind # "ok" THEN my_team ELSE Ok(TeamMeta(tid, my_team.val[1]))

----------------------------------------------------------------------------
(* _fetch_rosters *)

RosterParams(m) == [view |-> "mRoster", scoringPeriod |-> m.current_week]

RosterPairs(team) ==
    [k \in 1..Len(team.roster.entries) |->
        <<team.roster.entries[k].playerId,
          team.roster.entries[k].playerPoolEntry.player.fullName>>]

\* the dict keyed by team id: a later team of the same id replaces an earlier one
RostersDict(teams) ==
    [i \in {teams[k].id : k \in 1..Len(teams)} |->
        LET last == CHOOSE k \in 1..Len(teams) :
                        /\ teams[k].id = i
                        /\ \A j \in 1..Len(teams) : teams[j].id = i => j <= k
        IN  RosterPairs(teams[last])]

FetchRostersResult(data, code) ==
    IF ~StatusOk(code) THEN Raise("HttpError", code) ELSE Ok(RostersDict(data.teams))

----------------------------------------------------------------------------
(* _fetch_stats *)

\* a test that takes every split for the season totals
IsSeasonTotals_AnySplit(statline) == statline.statSplitTypeId >= 1

\* `if statline.get('statSplitTypeId') == 2`
IsSeasonTotals(statline) == statline.statSplitTypeId = 2

\* a mapper that also drops the keys holding null
RelevantItems_DropNull(season_totals) ==
    LET known == {k \in DOMAIN season_totals \cap DOMAIN STATS_INT_TO_STRING :
                    season_totals[k].t # "none"}
    IN  [n \in {STATS_INT_TO_STRING[k] : k \in known} |->
            season_totals[CHOOSE k \in known : STATS_INT_TO_STRING[k] = n]]

\* dict((STATS_INT_TO_STRING[k], v) for (k, v) in season_totals.items()
\*      if k in STATS_INT_TO_STRING.keys())
RelevantItems(season_totals) ==
    LET known == DOMAIN season_totals \cap DOMAIN STATS_INT_TO_STRING
    IN  [n \in {STATS_INT_TO_STRING[k] : k \in known} |->
            season_totals[CHOOSE k \in known : STATS_INT_TO_STRING[k] = n]]

\* the 'stats' dict with blocks left as the mapping holds it
PlayerStats_NoCast(relevant_items) ==
    [points |-> CastNone(DictGet(relevant_items, "points")),
     blocks |-> DictGet(relevant_items, "blocks"),
     steals |-> CastNone(DictGet(relevant_items, "steals")),
     assists |-> CastNone(DictGet(relevant_items, "assists")),
     rebounds |-> CastNone(DictGet(relevant_items, "rebounds"))]

\* the 'stats' dict of a player's record
PlayerStats(relevant_items) ==
    [points |-> CastNone(DictGet(relevant_items, "points")),
     blocks |-> CastNone(DictGet(relevant_items, "blocks")),
     steals |-> CastNone(DictGet(relevant_items, "steals")),
     assists |-> CastNone(DictGet(relevant_items, "assists")),
     rebounds |-> CastNone(DictGet(relevant_items, "rebounds"))]

\* self._fetch_teams(): the provider's team list, by one more request
FetchTeamsResult(data, code) ==
    IF ~StatusOk(code) THEN Raise("HttpError", code) ELSE Ok([teams |-> data.teams])

\* [x['nickname'] for x in teams['teams'] if x['id'] == idx][0].strip()
TeamName(teams, idx) ==
    LET found == SelectSeq(teams.teams, LAMBDA x : x.id = idx)
        first == PyIndex(found, 0)
    IN  IF first.kind # "ok" THEN first ELSE Ok(PyStr(Strip(first.val[1].nickname)))

PlayerMetadata(player, statline, team_name) ==
    [teamId |-> team_name,
     name |-> GetNested(player, <<"playerPoolEntry", "player", "fullName">>),
     id |-> GetNested(player, <<"playerPoolEntry", "player", "id">>),
     stats |-> PlayerStats(RelevantItems(statline.stats))]

\* the statlines of one player the inner loop acts on, in order
PlayerCalls(i, roster, player) ==
    LET stats == GetNested(player, <<"playerPoolEntry", "player", "stats">>)
        lines == SelectSeq(stats, IsSeasonTotals)
    IN  [j \in 1..Len(lines) |->
            [team |-> i, idx |-> roster.id, player |-> player, statline |-> lines[j]]]

\* every (team, player, statline) the loops reach the body with, in order
StatCalls(rs) ==
    Concat([i \in 1..Len(rs) |->
        Concat([k \in 1..Len(rs[i].roster.entries) |->
            PlayerCalls(i, rs[i], rs[i].roster.entries[k])])])

\* the status the n-th _fetch_teams request of one run is answered with
CodeAt(n, failAt, code) == IF n = failAt THEN code ELSE 200

\* what the body does on its n-th execution: a record, or what it raises
StatStep(calls, n, data, failAt, code) ==
    LET teams == FetchTeamsResult(data, CodeAt(n, failAt, code))
    IN  IF teams.kind # "ok" THEN teams
        ELSE LET team_name == TeamName(teams.val[1], calls[n].idx)
             IN  IF team_name.kind # "ok" THEN team_name
                 ELSE Ok(PlayerMetadata(calls[n].player, calls[n].statline,
                                        team_name.val[1]))

\* the run of _fetch_stats over self.rosters: its result and how many
\* requests it issued
FetchStatsRun(attr, data, failAt, code) ==
    IF ~IsSet(attr) THEN [result |-> Raise("AttributeError", "rosters"), nreq |-> 0]
    ELSE LET rs == attr[1]
             calls == StatCalls(rs)
             steps == [n \in 1..Len(calls) |-> StatStep(calls, n, data, failAt, code)]
             bad == {n \in 1..Len(calls) : steps[n].kind # "ok"}
         IN  IF bad # {}
             THEN LET n == CHOOSE x \in bad : \A y \in bad : x <= y
                  IN  [result |-> steps[n], nreq |-> n]
             ELSE [result |->
                      Ok([i \in 1..Len(rs) |->
                            LET mine == SelectSeq([n \in 1..Len(calls) |-> n],
                                                  LAMBDA n : calls[n].team = i)
                            IN  [m \in 1..Len(mine) |-> steps[mine[m]].val[1]]]),
                   nreq |-> Len(calls)]

----------------------------------------------------------------------------
(* _calculate_totals *)

\* sum(d['stats'].get(f) for d in roster)
SumField(roster, f) ==
    IF \E k \in 1..Len(roster) : DictGet(roster[k].stats, f).t # "int"
    THEN Raise("TypeError", f)
    ELSE Ok(PyInt(SumSeq([k \in 1..Len(roster) |-> DictGet(roster[k].stats, f).v])))

\* the stat_totals dict of one team's list, or what building it raises
StatTotals(roster) ==
    LET first == PyIndex(roster, 0)
        fs == <<"points", "blocks", "steals", "assists", "rebounds">>
        sums == [k \in 1..Len(fs) |-> SumField(roster, fs[k])]
        bad == {k \in 1..Len(fs) : sums[k].kind # "ok"}
    IN  IF first.kind # "ok" THEN first
        ELSE IF bad # {} THEN sums[CHOOSE x \in bad : \A y \in bad : x <= y]
        ELSE Ok([teamId |-> first.val[1].teamId,
                 points |-> sums[1].val[1],
                 blocks |-> sums[2].val[1],
                 steals |-> sums[3].val[1],
                 assists |-> sums[4].val[1],
                 rebounds |-> sums[5].val[1]])

\* `if not team_id: ... else: [x for x in team_totals if x.get('teamId') == team_id]`
FilterTotals(team_totals, a) ==
    IF ~Truthy(a) THEN team_totals
    ELSE SelectSeq(team_totals, LAMBDA x : PyEq(x.teamId, a))

CalculateTotalsResult(attr, a) ==
    IF ~IsSet(attr) THEN Raise("AttributeError", "roster_stats")
    ELSE LET rstats == attr[1]
             totals == [i \in 1..Len(rstats) |-> StatTotals(rstats[i])]
             bad == {i \in 1..Len(rstats) : totals[i].kind # "ok"}
         IN  IF bad # {} THEN totals[CHOOSE x \in bad : \A y \in bad : x <= y]
             ELSE Ok(FilterTotals([i \in 1..Len(rstats) |-> totals[i].val[1]], a))

----------------------------------------------------------------------------
(* The inputs the operations are called with *)

CookieVals == {None, PyDict(<<>>), PyDict(<<"espn_s2", "SWID">>)}
LeagueIds == {11}
Years == {2020}
TeamIds == 1..NumTeams
TeamArgs == {None} \cup {PyInt(k) : k \in 0..(NumTeams + 1)}
TotalsArgs == TeamArgs \cup {PyStr(Strip(Nick(i))) : i \in 1..NumTeams}

OnDemand == {"_fetch_team_meta", "_fetch_rosters", "_fetch_stats", "_calculate_totals"}

Done == [kind |-> "ok", val |-> <<>>]

----------------------------------------------------------------------------
(* The state machine *)

Init ==
    /\ provider \in Providers
    /\ state = "uninit"
    /\ cookies = Unset
    /\ league_id = Unset
    /\ year = Unset
    /\ team_id = Unset
    /\ meta = Unset
    /\ rosters = Unset
    /\ roster_stats = Unset
    /\ op = "none"
    /\ arg = <<>>
    /\ result = NoResult
    /\ requests = <<>>
    /\ responses = <<>>

\* League(league_id, year, team_id, cookies): on an exception no instance
\* exists, so the caller holds no field of it
Construct ==
    /\ state = "uninit"
    /\ \E c \in CookieVals, l \in LeagueIds, y \in Years, t \in TeamIds, code \in Statuses :
        /\ op' = "__init__"
        /\ arg' = <<l, y, t, c>>
        /\ IF CredsMissing(c)
           THEN /\ result' = Raise("ValueError", "No Authorization Credentials")
                /\ requests' = <<>>
                /\ responses' = <<>>
                /\ UNCHANGED <<state, fields>>
           ELSE LET r == FetchLeagueMetaResult(provider, code)
                IN  /\ requests' = <<Request(Url(y, l), NoParams, c)>>
                    /\ responses' = <<code>>
                    /\ IF r.kind = "ok"
                       THEN /\ state' = "ready"
                            /\ cookies' = <<c>>
                            /\ league_id' = <<l>>
                            /\ year' = <<y>>
                            /\ team_id' = <<t>>
                            /\ meta' = r.val
                            /\ result' = Done
                            /\ UNCHANGED <<rosters, roster_stats>>
                       ELSE /\ result' = r
                            /\ UNCHANGED <<state, fields>>
    /\ UNCHANGED provider

FetchTeamMeta ==
    /\ state = "ready"
    /\ \E a \in TeamArgs, code \in Statuses :
        /\ op' = "_fetch_team_meta"
        /\ arg' = a
        /\ requests' = <<Request(Url(year[1], league_id[1]), [view |-> "mTeam"], cookies[1])>>
        /\ responses' = <<code>>
        /\ result' = FetchTeamMetaResult(a, team_id[1], provider, code)
    /\ UNCHANGED <<provider, state, fields>>

\* _fetch_rosters keeping the payload on the instance
FetchRosters_Caching ==
    /\ state = "ready"
    /\ \E a \in {None, PyInt(1)}, code \in Statuses :
        /\ op' = "_fetch_rosters"
        /\ arg' = a
        /\ requests' = <<Request(Url(year[1], league_id[1]), RosterParams(meta[1]), cookies[1])>>
        /\ responses' = <<code>>
        /\ result' = FetchRostersResult(provider, code)
        /\ rosters' = IF StatusOk(code) THEN <<provider.teams>> ELSE rosters
    /\ UNCHANGED <<provider, state, cookies, league_id, year, team_id, meta, roster_stats>>

FetchRosters ==
    /\ state = "ready"
    /\ \E a \in {None, PyInt(1)}, code \in Statuses :
        /\ op' = "_fetch_rosters"
        /\ arg' = a
        /\ requests' = <<Request(Url(year[1], league_id[1]), RosterParams(meta[1]), cookies[1])>>
        /\ responses' = <<code>>
        /\ result' = FetchRostersResult(provider, code)
    /\ UNCHANGED <<provider, state, fields>>

\* the requests one run of _fetch_stats issues and their answers
StatsRequests(nreq) ==
    [n \in 1..nreq |-> Request(Url(year[1], league_id[1]), NoParams, cookies[1])]

NumCalls == IF IsSet(rosters) THEN Len(StatCalls(rosters[1])) ELSE 0

FetchStats ==
    /\ state = "ready"
    /\ \E failAt \in 0..NumCalls :
       \E code \in (IF failAt = 0 THEN {200} ELSE Statuses) :
        LET run == FetchStatsRun(rosters, provider, failAt, code)
        IN  /\ op' = "_fetch_stats"
            /\ arg' = None
            /\ requests' = StatsRequests(run.nreq)
            /\ responses' = [n \in 1..run.nreq |-> CodeAt(n, failAt, code)]
            /\ result' = run.result
    /\ UNCHANGED <<provider, state, fields>>

CalculateTotals ==
    /\ state = "ready"
    /\ \E a \in TotalsArgs :
        /\ op' = "_calculate_totals"
        /\ arg' = a
        /\ requests' = <<>>
        /\ responses' = <<>>
        /\ result' = CalculateTotalsResult(roster_stats, a)
    /\ UNCHANGED <<provider, state, fields>>

\* the caller stores the raw roster payload: league.rosters = <teams of the mRoster view>
SetRosters ==
    /\ state = "ready"
    /\ \E code \in Statuses :
        /\ op' = "rosters="
        /\ arg' = None
        /\ requests' = <<Request(Url(year[1], league_id[1]), RosterParams(meta[1]), cookies[1])>>
        /\ responses' = <<code>>
        /\ IF StatusOk(code)
           THEN /\ rosters' = <<provider.teams>>
                /\ result' = Done
           ELSE /\ result' = Raise("HttpError", code)
                /\ UNCHANGED rosters
    /\ UNCHANGED <<provider, state, cookies, league_id, year, team_id, meta, roster_stats>>

\* the caller stores the stats: league.roster_stats = league._fetch_stats()
SetRosterStats ==
    /\ state = "ready"
    /\ \E failAt \in 0..NumCalls :
       \E code \in (IF failAt = 0 THEN {200} ELSE Statuses) :
        LET run == FetchStatsRun(rosters, provider, failAt, code)
        IN  /\ op' = "roster_stats="
            /\ arg' = None
            /\ requests' = StatsRequests(run.nreq)
            /\ responses' = [n \in 1..run.nreq |-> CodeAt(n, failAt, code)]
            /\ IF run.result.kind = "ok"
               THEN /\ roster_stats' = run.result.val
                    /\ result' = Done
               ELSE /\ result' = run.result
                    /\ UNCHANGED roster_stats
    /\ UNCHANGED <<provider, state, cookies, league_id, year, team_id, meta, rosters>>

Next ==
    \/ Construct
    \/ FetchTeamMeta
    \/ FetchRosters
    \/ FetchStats
    \/ CalculateTotals
    \/ SetRosters
    \/ SetRosterStats

Spec == Init /\ [][Next]_vars

----------------------------------------------------------------------------
(* The stat code mapper on its own: every raw stat mapping over a few keys *)

RawKeys == {0, 1, 6, 999}
RawValues == {None, PyInt(3), PyInt(7), PyInt(10)}

RawMaps == UNION {[ks -> RawValues] : ks \in SUBSET RawKeys}

InitMapper ==
    /\ provider \in {pr \in Providers : Len(pr.teams) = 1 /\ pr.teams[1].roster.entries = <<>>}
    /\ state = "uninit"
    /\ cookies = Unset
    /\ league_id = Unset
    /\ year = Unset
    /\ team_id = Unset
    /\ meta = Unset
    /\ rosters = Unset
    /\ roster_stats = Unset
    /\ op = "none"
    /\ arg \in RawMaps
    /\ result = NoResult
    /\ requests = <<>>
    /\ responses = <<>>

ApplyMapper ==
    /\ op = "none"
    /\ op' = "relevant_items"
    /\ result' = Ok(RelevantItems(arg))
    /\ UNCHANGED <<provider, state, fields, arg, requests, responses>>

SpecMapper == InitMapper /\ [][ApplyMapper]_vars

----------------------------------------------------------------------------
(* Properties *)

OutOfRange(code) == code < 200 \/ code > 299
AllAnswered2xx == \A n \in 1..Len(responses) : ~OutOfRange(responses[n])
SameResult(r1, r2) == r1.kind = r2.kind /\ r1.val = r2.val

\* C1: constructing a League with empty or absent credential material, for
\* any league_id, year and team_id, raises the "No Authorization Credentials"
\* error; no HTTP request is issued and no instance with league metadata exists.
C1_NoCredentialsFails ==
    (op = "__init__" /\ (arg[4].t = "none" \/ (arg[4].t = "dict" /\ arg[4].v = <<>>)))
        => /\ result.kind = "ValueError"
           /\ result.val = <<"No Authorization Credentials">>
           /\ requests = <<>>
           /\ state = "uninit"
           /\ meta = Unset

C1_Witness ==
    /\ op = "__init__"
    /\ arg[4].t = "dict"
    /\ arg[4].v = <<>>
    /\ arg[3] = NumTeams
    /\ result.kind = "ValueError"

\* C2: a fetch operation (league meta at construction, team meta, rosters)
\* that is answered with a status outside 200..299 raises HttpError carrying
\* that status, returns nothing, and leaves every field of the league as it was.
C2_HttpErrorNoMutation ==
    [][(/\ op' \in {"__init__", "_fetch_team_meta", "_fetch_rosters"}
        /\ responses' # <<>>
        /\ OutOfRange(responses'[1]))
          => /\ result'.kind = "HttpError"
             /\ result'.val = <<responses'[1]>>
             /\ fields' = fields
             /\ state' = state]_vars

C2_Witness ==
    /\ op = "_fetch_team_meta"
    /\ responses = <<300>>
    /\ result.kind = "HttpError"
    /\ result.val = <<300>>
    /\ IsSet(meta)
    /\ IsSet(rosters)

\* what _fetch_stats gives on the provider's roster payload when every
\* request is answered 200
ProviderStats == FetchStatsRun(<<provider.teams>>, provider, 0, 200).result

TeamPos(i) ==
    IF \E k \in 1..Len(provider.teams) : provider.teams[k].id = i
    THEN CHOOSE k \in 1..Len(provider.teams) : provider.teams[k].id = i
    ELSE 0

\* C4: when _calculate_totals completes, a team_id filter (a 1-based id)
\* gives exactly the totals record of the team with that id (one element when
\* the team exists, none when no team has that id), and no filter gives every
\* team's record.
C4_FilterByTeamId ==
    (op = "_calculate_totals" /\ result.kind = "ok")
        => LET out == result.val[1]
               all == [i \in 1..Len(roster_stats[1]) |-> StatTotals(roster_stats[1][i]).val[1]]
           IN  /\ arg.t = "none" => out = all
               /\ (arg.t = "int" /\ TeamPos(arg.v) # 0) => out = <<all[TeamPos(arg.v)]>>
               /\ (arg.t = "int" /\ arg.v >= 1 /\ TeamPos(arg.v) = 0) => out = <<>>

\* C5: with no filter _calculate_totals returns one totals record per team
\* stat list, in the same order, each of the five fields being the sum of
\* that field over the team's player stat records.
C5_OneSummedRecordPerTeam ==
    (op = "_calculate_totals" /\ arg.t = "none" /\ IsSet(roster_stats))
        => /\ result.kind = "ok"
           /\ Len(result.val[1]) = Len(roster_stats[1])
           /\ \A i \in 1..Len(roster_stats[1]) : \A f \in StatNames :
                result.val[1][i][f].v =
                    SumSeq([k \in 1..Len(roster_stats[1][i]) |->
                                roster_stats[1][i][k].stats[f].v])

\* C6: for a team array of length N and a team id t with 1 <= t <= N (the
\* argument, or the configured team_id when the argument is absent), team
\* meta is taken from the array element at 0-based index t - 1, and the
\* record's id is t.
C6_TeamAtIndexMinusOne ==
    (op = "_fetch_team_meta" /\ AllAnswered2xx)
        => LET t == IF arg.t = "none" THEN team_id[1] ELSE arg.v
           IN  t \in 1..Len(provider.teams)
                 => /\ result.kind = "ok"
                    /\ result.val[1].id = t
                    /\ result.val[1].abbrev = provider.teams[t].abbrev
                    /\ result.val[1].owner = provider.teams[t].primaryOwner
                    /\ result.val[1].name = provider.teams[t].nickname

C6_Witness ==
    /\ op = "_fetch_team_meta"
    /\ arg.t = "int"
    /\ arg.v = 1
    /\ result.kind = "ok"
    /\ result.val[1].id = 1
    /\ provider.teams[1].id # 1
    /\ result.val[1].abbrev = provider.teams[1].abbrev

HasSeasonLine(entry) ==
    \E j \in 1..Len(entry.playerPoolEntry.player.stats) :
        entry.playerPoolEntry.player.stats[j].statSplitTypeId = 2

\* C7: in _fetch_stats a roster player with no statline of split type 2
\* contributes no entry to the team's list, which holds the other players
\* of the roster in roster order, one record each (so it is shorter than the
\* roster by one per such player); such players cause no request and no error.
C7_NoSeasonLineNoEntry ==
    (op = "_fetch_stats" /\ IsSet(rosters))
        => /\ AllAnswered2xx => result.kind = "ok"
           /\ result.kind = "ok" =>
                /\ Len(result.val[1]) = Len(rosters[1])
                /\ \A i \in 1..Len(rosters[1]) :
                     LET with == SelectSeq(rosters[1][i].roster.entries, HasSeasonLine)
                         got == result.val[1][i]
                     IN  /\ Len(got) = Len(with)
                         /\ \A k \in 1..Len(got) : got[k].id = with[k].playerId
                /\ Len(requests) = SumSeq([i \in 1..Len(rosters[1]) |-> Len(result.val[1][i])])

C7_Witness ==
    /\ op = "_fetch_stats"
    /\ result.kind = "ok"
    /\ \E i \in 1..Len(rosters[1]) :
        /\ Len(rosters[1][i].roster.entries) = 2
        /\ ~HasSeasonLine(rosters[1][i].roster.entries[2])
        /\ Len(result.val[1][i]) = 1
        /\ result.val[1][i][1].id = rosters[1][i].roster.entries[1].playerId

\* the season-total stat mapping of the roster entry with player id p
SourceStats(p) ==
    LET e == CHOOSE e \in UNION {Range(rosters[1][i].roster.entries) : i \in 1..Len(rosters[1])} :
                e.playerPoolEntry.player.id = p
        lines == e.playerPoolEntry.player.stats
    IN  lines[CHOOSE j \in 1..Len(lines) : lines[j].statSplitTypeId = 2].stats

\* the provider stat id of a canonical name
StatId(f) == CHOOSE k \in DOMAIN STATS_INT_TO_STRING : STATS_INT_TO_STRING[k] = f

\* C8: in every player stat record _fetch_stats produces, each of the five
\* stat fields is a number: the statline's value, or 0 when the statline
\* lacks the stat or holds null for it; the totals over such records never
\* fail on a missing value.
C8_StatFieldsAreNumbers ==
    /\ (op = "_fetch_stats" /\ result.kind = "ok")
          => \A i \in 1..Len(result.val[1]) : \A k \in 1..Len(result.val[1][i]) :
               LET rec == result.val[1][i][k]
                   src == SourceStats(rec.id)
               IN  /\ DOMAIN rec.stats = StatNames
                   /\ \A f \in StatNames :
                        /\ rec.stats[f].t = "int"
                        /\ (StatId(f) \notin DOMAIN src \/ src[StatId(f)].t = "none")
                              => rec.stats[f].v = 0
                        /\ (StatId(f) \in DOMAIN src /\ src[StatId(f)].t = "int")
                              => rec.stats[f].v = src[StatId(f)].v
    /\ op = "_calculate_totals" => result.kind # "TypeError"

C8_Witness ==
    /\ op = "_fetch_stats"
    /\ result.kind = "ok"
    /\ \E i \in 1..Len(result.val[1]) : \E k \in 1..Len(result.val[1][i]) :
         LET rec == result.val[1][i][k]
         IN  /\ 1 \in DOMAIN SourceStats(rec.id)
             /\ SourceStats(rec.id)[1].t = "none"
             /\ rec.stats.blocks = PyInt(0)
             /\ 6 \notin DOMAIN SourceStats(result.val[1][i][1].id)
             /\ result.val[1][i][1].stats.rebounds = PyInt(0)

\* C9: the mapped stat dictionary has exactly one entry per raw key that is
\* a defined provider stat id, under its canonical name and with the raw
\* value; other keys are dropped without an error ({0: 10, 1: 3, 999: 7}
\* gives exactly {points: 10, blocks: 3}).
C9_MapperRenamesKnownKeys ==
    op = "relevant_items"
        => LET out == result.val[1]
               known == {k \in DOMAIN arg : k \in DOMAIN STATS_INT_TO_STRING}
           IN  /\ result.kind = "ok"
               /\ DOMAIN out = {STATS_INT_TO_STRING[k] : k \in known}
               /\ Cardinality(DOMAIN out) = Cardinality(known)
               /\ \A k \in known : PyEq(out[STATS_INT_TO_STRING[k]], arg[k])
               /\ (DOMAIN arg = {0, 1, 999} /\ PyEq(arg[0], PyInt(10))
                     /\ PyEq(arg[1], PyInt(3)) /\ PyEq(arg[999], PyInt(7)))
                    => out = ("points" :> PyInt(10)) @@ ("blocks" :> PyInt(3))

C9_Witness ==
    /\ op = "relevant_items"
    /\ DOMAIN arg = {0, 1, 999}
    /\ PyEq(arg[0], PyInt(10))
    /\ PyEq(arg[1], PyInt(3))
    /\ PyEq(arg[999], PyInt(7))
    /\ DOMAIN result.val[1] = {"points", "blocks"}

\* C10: _calculate_totals on stat lists of which one is empty (an empty
\* roster, or no player with a season-total statline) does not fail and
\* gives that team a record whose five stat fields are zero.
C10_EmptyTeamZeroTotals ==
    (op = "_calculate_totals" /\ arg.t = "none" /\ IsSet(roster_stats))
        => \A i \in 1..Len(roster_stats[1]) :
             roster_stats[1][i] = <<>>
                => /\ result.kind = "ok"
                   /\ \A f \in StatNames : result.val[1][i][f] = PyInt(0)

====
